---------------------------- MODULE Spec2Model ----------------------------
(***************************************************************************)
(* Model of the PDF-to-Excel converter: the extraction engine of           *)
(* src/extract_to_excel.py (line parser, vocabulary builder, tabular       *)
(* summary parser, pipeline entry point) and the GUI front-end of          *)
(* src/gui_settings.py.                                                    *)
(*                                                                         *)
(* A Python str is a sequence of one-character strings, so that split,     *)
(* join, strip, startswith, endswith and the regular expressions are       *)
(* computed character by character as the code computes them.  Python      *)
(* indices are 0-based; the indices of this module are 1-based.            *)
(***************************************************************************)
EXTENDS Integers, Sequences, FiniteSets, TLC

(***************************************************************************)
(* Characters and character classes of the regular expressions.            *)
(***************************************************************************)
Digit == {"0", "1", "2", "3", "4", "5", "6", "7", "8", "9"}

Upper == {"A", "B", "C", "D", "E", "F", "G", "H", "I", "J", "K", "L", "M",
          "N", "O", "P", "Q", "R", "S", "T", "U", "V", "W", "X", "Y", "Z"}

Lower == {"a", "b", "c", "d", "e", "f", "g", "h", "i", "j", "k", "l", "m",
          "n", "o", "p", "q", "r", "s", "t", "u", "v", "w", "x", "y", "z"}

\* [A-Z0-9]
UpperDigit == Upper \cup Digit

\* \w
WordChar == Upper \cup Lower \cup Digit \cup {"_"}

\* \s, and the characters str.split() and str.strip() treat as blank
Space == {" "}

\* [\d.,]
NumChar == Digit \cup {".", ","}

\* [\d,]
GroupedDigit == Digit \cup {","}

(***************************************************************************)
(* str operations.                                                         *)
(***************************************************************************)
AllIn(s, S) == \A k \in 1..Len(s) : s[k] \in S

\* s.startswith(p)
StartsWith(s, p) == Len(p) <= Len(s) /\ SubSeq(s, 1, Len(p)) = p

\* s.endswith(p)
EndsWith(s, p) == Len(p) <= Len(s) /\ SubSeq(s, Len(s) - Len(p) + 1, Len(s)) = p

\* p in s, for strings
Contains(s, p) == \E k \in 0..(Len(s) - Len(p)) : SubSeq(s, k + 1, k + Len(p)) = p

\* the n-th smallest element of a set of integers
Nth(S, n) == CHOOSE k \in S : Cardinality({ j \in S : j < k }) = n - 1

\* the first position from k on that holds a blank (or no blank, for
\* blank = FALSE), Len(s) + 1 if there is none
Scan(s, k, blank) ==
    CHOOSE n \in k..(Len(s) + 1) :
        /\ n = Len(s) + 1 \/ ((s[n] \in Space) = blank)
        /\ \A j \in k..(n - 1) : (s[j] \in Space) # blank

\* s.lstrip()
LStrip(s) == SubSeq(s, Scan(s, 1, FALSE), Len(s))

\* s.rstrip()
RStrip(s) ==
    LET n == CHOOSE k \in 0..Len(s) :
                 /\ k = 0 \/ s[k] \notin Space
                 /\ \A j \in (k + 1)..Len(s) : s[j] \in Space
    IN  SubSeq(s, 1, n)

\* s.strip()
Strip(s) == RStrip(LStrip(s))

\* ' '.join(parts)
RECURSIVE Join(_)
Join(parts) ==
    IF parts = <<>> THEN <<>>
    ELSE IF Len(parts) = 1 THEN parts[1]
    ELSE parts[1] \o <<" ">> \o Join(Tail(parts))

\* s.split(): the maximal runs of non-blank characters, in order
RECURSIVE SplitFrom(_, _)
SplitFrom(s, k) ==
    LET start == Scan(s, k, FALSE)
        end == Scan(s, start, TRUE)
    IN  IF start > Len(s) THEN <<>>
        ELSE <<SubSeq(s, start, end - 1)>> \o SplitFrom(s, end)

Split(s) == SplitFrom(s, 1)

NotComma(c) == c # ","

\* s.replace(',', '')
RemoveCommas(s) == SelectSeq(s, NotComma)

\* the index of the first element of parts that belongs to S, 0 if none
FirstIndexIn(parts, S) ==
    IF \E k \in 1..Len(parts) : parts[k] \in S
    THEN CHOOSE k \in 1..Len(parts) :
            parts[k] \in S /\ \A j \in 1..(k - 1) : parts[j] \notin S
    ELSE 0

(***************************************************************************)
(* Words used by the code.                                                 *)
(***************************************************************************)
AM == <<"A", "M">>
PM == <<"P", "M">>
Pfx1Z == <<"1", "Z">>
PfxHR == <<"H", "R">>
ManWt == <<"M", "a", "n", "W", "t">>
Com == <<"C", "o", "m">>
Lb == <<"l", "b">>
Kg == <<"k", "g">>
NA == <<"N", "/", "A">>
TotalColon == <<"T", "o", "t", "a", "l", ":">>
Ground == <<"G", "r", "o", "u", "n", "d">>
Express == <<"E", "x", "p", "r", "e", "s", "s">>
GroundExpress == Ground \o <<" ">> \o Express

SERVICE_PREFIXES ==
    << Ground,
       <<"N", "e", "x", "t">>,
       <<"2", "n", "d">>,
       <<"3", "r", "d">>,
       <<"3", " ", "D", "a", "y">>,
       <<"S", "t", "a", "n", "d", "a", "r", "d">>,
       <<"W", "o", "r", "l", "d", "w", "i", "d", "e">>,
       Express,
       <<"E", "c", "o", "n", "o", "m", "y">>,
       <<"E", "x", "p", "e", "d", "i", "t", "e", "d">> >>

(***************************************************************************)
(* Tracking-id patterns.  re.match anchors a pattern at the start of the   *)
(* token only: a token that continues after the pattern still matches.     *)
(***************************************************************************)
\* re.match(r'1Z[A-Z0-9]{16}', part)
Match1Z(part) ==
    /\ Len(part) >= 18
    /\ StartsWith(part, Pfx1Z)
    /\ \A k \in 3..18 : part[k] \in UpperDigit

\* re.match(r'HR[A-Z0-9]{6,8}-\d{4}-\d+', part)
MatchHR(part) ==
    /\ StartsWith(part, PfxHR)
    /\ \E n \in 6..8 :
          /\ Len(part) >= n + 9
          /\ \A k \in 3..(n + 2) : part[k] \in UpperDigit
          /\ part[n + 3] = "-"
          /\ \A k \in (n + 4)..(n + 7) : part[k] \in Digit
          /\ part[n + 8] = "-"
          /\ part[n + 9] \in Digit

MatchPattern(pattern, part) ==
    IF pattern = "1Z" THEN Match1Z(part) ELSE MatchHR(part)

Sections == {"drop_off", "enhanced", "mobile"}

\* SECTION_CONFIGS[section]['tracking_patterns'], in their listed order
TrackingPatterns(sec) ==
    IF sec = "enhanced" THEN <<"1Z", "HR">> ELSE <<"1Z">>

\* SECTION_CONFIGS[section]['name']
SectionName(sec) ==
    CASE sec = "drop_off" -> "Drop Off Packages"
      [] sec = "enhanced" -> "Enhanced Drop Off Packages"
      [] OTHER -> "Mobile Drop Off"

(***************************************************************************)
(* The line parser.  None is the empty string: split() yields no empty     *)
(* token, and the code tests the result with `not tracking`.               *)
(***************************************************************************)
None == <<>>

\* for part in parts: if re.match(pattern, part): return part
RECURSIVE FirstMatch(_, _)
FirstMatch(pattern, parts) ==
    IF parts = <<>> THEN None
    ELSE IF MatchPattern(pattern, Head(parts)) THEN Head(parts)
    ELSE FirstMatch(pattern, Tail(parts))

\* a plausible slip: the loops nested the other way round (tokens outside)
RECURSIVE extract_tracking_by_token(_, _)
extract_tracking_by_token(parts, tracking_patterns) ==
    IF parts = <<>> THEN None
    ELSE IF \E k \in 1..Len(tracking_patterns) :
                MatchPattern(tracking_patterns[k], Head(parts))
         THEN Head(parts)
         ELSE extract_tracking_by_token(Tail(parts), tracking_patterns)

RECURSIVE extract_tracking(_, _)
extract_tracking(parts, tracking_patterns) ==
    IF tracking_patterns = <<>> THEN None
    ELSE LET found == FirstMatch(Head(tracking_patterns), parts)
         IN  IF found # None THEN found
             ELSE extract_tracking(parts, Tail(tracking_patterns))

\* the loop of extract_date_parts from index i (1-based) up to last
RECURSIVE DateScan(_, _, _)
DateScan(parts, i, last) ==
    IF i > last THEN <<>>
    ELSE IF StartsWith(parts[i], Pfx1Z) \/ StartsWith(parts[i], PfxHR) THEN <<>>
    ELSE <<parts[i]>> \o DateScan(parts, i + 1, last)

Min(a, b) == IF a <= b THEN a ELSE b

\* the default of extract_date_parts' parameter num_parts
NumDateParts == 3

\* a plausible slip: the scan takes one date token only
extract_date_parts_single(parts, time_idx) ==
    DateScan(parts, time_idx + 1, Min(time_idx + 1, Len(parts)))

\* time_idx is the 1-based index of the time marker
extract_date_parts(parts, time_idx) ==
    DateScan(parts, time_idx + 1, Min(time_idx + NumDateParts, Len(parts)))

extract_weight(parts) ==
    LET last == parts[Len(parts)]
    IN  IF last \in {ManWt, Com}
        THEN IF /\ Len(parts) >= 2
                /\ \/ Contains(parts[Len(parts) - 1], Lb)
                   \/ Contains(parts[Len(parts) - 1], Kg)
                   \/ parts[Len(parts) - 1] = NA
             THEN parts[Len(parts) - 1] \o <<" ">> \o last
             ELSE NA
        ELSE last

\* for service in service_types: if customer_service.endswith(service): ...
RECURSIVE SplitLoop(_, _)
SplitLoop(customer_service, service_types) ==
    IF service_types = <<>>
    THEN [Customer |-> customer_service, Service |-> <<>>]
    ELSE LET service == Head(service_types)
         IN  IF EndsWith(customer_service, service)
             THEN [Customer |->
                       \* customer_service[:-len(service)]: [:-0] is the empty string
                       Strip(IF Len(service) = 0 THEN <<>>
                             ELSE SubSeq(customer_service, 1,
                                         Len(customer_service) - Len(service))),
                   Service |-> service]
             ELSE SplitLoop(customer_service, Tail(service_types))

split_customer_service(customer_service, service_types) ==
    IF customer_service = <<>>
    THEN [Customer |-> <<>>, Service |-> <<>>]
    ELSE SplitLoop(customer_service, service_types)

\* the value of parse_line_entry when it returns None
NoEntry ==
    [matched |-> FALSE, Time |-> <<>>, Pickup_Date |-> <<>>, Customer |-> <<>>,
     Service |-> <<>>, Tracking_Number |-> <<>>, Weight |-> <<>>]

IsTimeMarker(p) == p \in {AM, PM}

parse_line_entry(ln, service_types, tracking_patterns) ==
    LET parts == Split(ln)
        time_idx == FirstIndexIn(parts, {AM, PM})
        tracking == extract_tracking(parts, tracking_patterns)
    IN  IF Len(parts) < 4 THEN NoEntry
        ELSE IF time_idx = 0 THEN NoEntry
        ELSE IF tracking = None THEN NoEntry
        ELSE
          LET date_parts == extract_date_parts(parts, time_idx)
              customer_start == time_idx + 1 + Len(date_parts)
              customer_end == CHOOSE k \in 1..Len(parts) :
                                 parts[k] = tracking /\ \A j \in 1..(k - 1) : parts[j] # tracking
              customer == IF customer_end > customer_start
                          THEN Join(SubSeq(parts, customer_start, customer_end - 1))
                          ELSE <<>>
              cs == split_customer_service(customer, service_types)
          IN  [matched |-> TRUE,
               Time |-> Join(SubSeq(parts, 1, time_idx)),
               Pickup_Date |-> Join(date_parts),
               Customer |-> cs.Customer,
               Service |-> cs.Service,
               Tracking_Number |-> tracking,
               Weight |-> extract_weight(parts)]

(***************************************************************************)
(* The vocabulary builder, extract_service_types_from_pdf.  Its sample is  *)
(* the sequence of the lines of the pages it scans.                        *)
(***************************************************************************)
\* the character at 1-based position k, "" beyond the ends
At(s, k) == IF k \in 1..Len(s) THEN s[k] ELSE ""

\* ' (AM|PM)' preceded by two digits, from position k
TimeTail(s, k) ==
    /\ At(s, k) \in Digit
    /\ At(s, k + 1) \in Digit
    /\ At(s, k + 2) = " "
    /\ At(s, k + 3) \in {"A", "P"}
    /\ At(s, k + 4) = "M"

\* re.search(r'\d{1,2}:\d{2} (AM|PM)', line)
SearchTime(s) ==
    \E k \in 1..Len(s) :
        /\ s[k] \in Digit
        /\ \/ At(s, k + 1) = ":" /\ TimeTail(s, k + 2)
           \/ At(s, k + 1) \in Digit /\ At(s, k + 2) = ":" /\ TimeTail(s, k + 3)

\* re.search(r'1Z[A-Z0-9]{16}', line)
Search1Z(s) ==
    \E k \in 1..Len(s) :
        /\ s[k] = "1"
        /\ At(s, k + 1) = "Z"
        /\ Len(s) >= k + 17
        /\ \A j \in (k + 2)..(k + 17) : s[j] \in UpperDigit

\* p.startswith('1Z') and len(p) == 18
IsTracking18(p) == StartsWith(p, Pfx1Z) /\ Len(p) = 18

\* the service text a sampled line contributes, None if it contributes none
ServiceText(ln) ==
    LET parts == Split(ln)
        time_idx == FirstIndexIn(parts, {AM, PM})
        tracking_idx == FirstIndexIn(parts, { p \in { parts[k] : k \in 1..Len(parts) } : IsTracking18(p) })
    IN  IF ~(SearchTime(ln) /\ Search1Z(ln)) THEN None
        \* `not time_idx` also holds when the marker is the very first token
        ELSE IF time_idx <= 1 \/ tracking_idx = 0 THEN None
        ELSE
          LET date_count ==
                  Cardinality({ k \in (time_idx + 1)..Min(time_idx + 3, Len(parts)) :
                                   ~StartsWith(parts[k], Pfx1Z) })
              customer_start == time_idx + 1 + date_count
              customer_end == tracking_idx
              service_text == IF customer_end > customer_start
                              THEN Join(SubSeq(parts, customer_start, customer_end - 1))
                              ELSE None
          IN  IF /\ customer_end > customer_start
                 /\ \E k \in 1..Len(SERVICE_PREFIXES) :
                        StartsWith(service_text, SERVICE_PREFIXES[k])
              THEN service_text
              ELSE None

\* \s*\d+\.?\d*lb$ matching all of s
IsWeightFragment(s) ==
    LET t == LStrip(s)
        n == Len(t)
    IN  /\ EndsWith(s, Lb)
        /\ n >= 3
        /\ t[1] \in Digit
        /\ \A k \in 1..(n - 2) : t[k] \in Digit \cup {"."}
        /\ Cardinality({ k \in 1..(n - 2) : t[k] = "." }) <= 1

\* \s*1Z[A-Z0-9]+$ matching all of s
IsTrackingFragment(s) ==
    LET t == LStrip(s)
    IN  /\ Len(t) >= 3
        /\ StartsWith(t, Pfx1Z)
        /\ \A k \in 3..Len(t) : t[k] \in UpperDigit

\* re.sub(r'\s*\d+\.?\d*lb$|\s*1Z[A-Z0-9]+$', '', s).strip(): the leftmost
\* position from which one alternative matches to the end is cut off
CleanLabel(s) ==
    LET cuts == { k \in 1..Len(s) :
                      LET tl == SubSeq(s, k, Len(s))
                      IN  IsWeightFragment(tl) \/ IsTrackingFragment(tl) }
    IN  IF cuts = {} THEN Strip(s)
        ELSE LET k == CHOOSE c \in cuts : \A d \in cuts : c <= d
             IN  Strip(SubSeq(s, 1, k - 1))

\* the bounds of `4 <= len(s) <= 50`
MinLabelLen == 4
MaxLabelLen == 50

\* the set service_types after the loop over the sampled lines
CollectServiceTexts(lines) ==
    { ServiceText(lines[k]) : k \in 1..Len(lines) } \ {None}

\* a plausible slip: the length test is left out
CleanedLabels_unfiltered(lines) ==
    { CleanLabel(s) : s \in CollectServiceTexts(lines) }

\* the set cleaned
CleanedLabels(lines) ==
    { CleanLabel(s) : s \in { t \in CollectServiceTexts(lines) :
                                 MinLabelLen <= Len(t) /\ Len(t) <= MaxLabelLen } }

\* the lists over the elements of S, each element once
Orderings(S) ==
    { l \in [1..Cardinality(S) -> S] : \A a, b \in 1..Cardinality(S) : a # b => l[a] # l[b] }

\* a plausible slip: the sort is left out and the set's own order is returned
Unsorted(S) == Orderings(S)

\* sorted(cleaned, key=len, reverse=True): a set iterates in an order that
\* changes from run to run (str hashes are salted) and the sort is stable, so
\* labels of equal length may come out in either order
SortedByLengthDesc(S) ==
    { l \in Orderings(S) : \A a, b \in 1..Len(l) : a < b => Len(l[a]) >= Len(l[b]) }

\* the lists extract_service_types_from_pdf can return for a sample
extract_service_types(lines) == SortedByLengthDesc(CleanedLabels(lines))

(***************************************************************************)
(* The tabular summary parser, parse_tabular_section.  Its block is the    *)
(* list match.group(1).strip().split('\n').                                *)
(***************************************************************************)
\* s.split(sep) for a one-character sep: empty pieces are kept
SplitOn(s, sep) ==
    LET cuts == { k \in 0..(Len(s) + 1) : k = 0 \/ k = Len(s) + 1 \/ s[k] = sep }
    IN  [n \in 1..(Cardinality(cuts) - 1) |->
            SubSeq(s, Nth(cuts, n) + 1, Nth(cuts, n + 1) - 1)]

\* re.match(r'^\d+\.\d+\.\d+\.\d+$', line)
IsDottedCode(s) ==
    LET groups == SplitOn(s, ".")
    IN  /\ Len(groups) = 4
        /\ \A k \in 1..4 : groups[k] # <<>> /\ AllIn(groups[k], Digit)

\* re.match(r'^\(\w{2}-\w{2}\)', line)
IsBracketedPair(s) ==
    /\ Len(s) >= 7
    /\ s[1] = "("
    /\ s[2] \in WordChar /\ s[3] \in WordChar
    /\ s[4] = "-"
    /\ s[5] \in WordChar /\ s[6] \in WordChar
    /\ s[7] = ")"

\* re.match(r'^[\d.,]+$', s)
IsNumericLine(s) == s # <<>> /\ AllIn(s, NumChar)

DigitValue(c) ==
    CASE c = "0" -> 0 [] c = "1" -> 1 [] c = "2" -> 2 [] c = "3" -> 3 [] c = "4" -> 4
      [] c = "5" -> 5 [] c = "6" -> 6 [] c = "7" -> 7 [] c = "8" -> 8 [] c = "9" -> 9

\* the value of a non-empty string of digits
RECURSIVE DigitsValue(_)
DigitsValue(ds) ==
    IF ds = <<>> THEN 0
    ELSE 10 * DigitsValue(SubSeq(ds, 1, Len(ds) - 1)) + DigitValue(ds[Len(ds)])

\* float(s) raises ValueError: of the strings of digits (the only ones the
\* code hands it: no dot, commas removed) the empty one is no number
FloatRaises(ds) == ds = <<>>

\* the threshold of `float(...) < 100000`
MergeThreshold == 100000

\* a plausible slip: the threshold compared with <=
IsWeightContinuation_inclusive(next_val) ==
    \/ \E k \in 1..Len(next_val) : next_val[k] = "."
    \/ DigitsValue(RemoveCommas(next_val)) <= MergeThreshold

\* '.' in next_val or float(next_val.replace(',', '')) < 100000, where
\* float does not raise
IsWeightContinuation(next_val) ==
    \/ \E k \in 1..Len(next_val) : next_val[k] = "."
    \/ DigitsValue(RemoveCommas(next_val)) < MergeThreshold

\* the evaluation of that condition raises ValueError
ContinuationRaises(next_val) ==
    /\ \A k \in 1..Len(next_val) : next_val[k] # "."
    /\ FloatRaises(RemoveCommas(next_val))

\* the longest prefix of s made of characters of S
PrefixIn(s, S) ==
    LET n == CHOOSE k \in 0..Len(s) :
                 /\ \A j \in 1..k : s[j] \in S
                 /\ k = Len(s) \/ s[k + 1] \notin S
    IN  SubSeq(s, 1, n)

\* group 7, ([\d.,]+(?:lb|kg)?)?, tried at the start of r; '' if it is None
WeightGroup(r) ==
    LET num == PrefixIn(r, NumChar)
        after == SubSeq(r, Len(num) + 1, Len(r))
    IN  IF num = <<>> THEN <<>>
        ELSE IF StartsWith(after, Lb) THEN num \o Lb
        ELSE IF StartsWith(after, Kg) THEN num \o Kg
        ELSE num

\* the columns of a row found with k description tokens: groups 2 to 5 are
\* whole tokens (each is followed by \s+), group 6 is a prefix of its token
ColumnsAt(tokens, k) ==
    /\ Len(tokens) >= k + 5
    /\ AllIn(tokens[k + 1], Digit)
    /\ AllIn(tokens[k + 2], GroupedDigit)
    /\ AllIn(tokens[k + 3], Digit)
    /\ AllIn(tokens[k + 4], Digit)
    /\ tokens[k + 5][1] \in GroupedDigit

NoRow ==
    [matched |-> FALSE, Type |-> <<>>, International |-> <<>>, Ground |-> <<>>,
     Air |-> <<>>, Unknown |-> <<>>, Total_Packages |-> <<>>, Weight |-> <<>>]

\* re.search(r'^(.*?)\s+(\d+)\s+([\d,]+)\s+(\d+)\s+(\d+)\s+([\d,]+)\s*([\d.,]+(?:lb|kg)?)?', line)
\* and the row built from its groups; the lazy group 1 takes the fewest
\* tokens.  The tokens of a line are separated by one blank each.
MatchColumns(ln) ==
    LET tokens == Split(ln)
        ks == { k \in 1..Len(tokens) : ColumnsAt(tokens, k) }
    IN  IF ks = {} THEN NoRow
        ELSE
          LET k == CHOOSE c \in ks : \A d \in ks : c <= d
              type_desc == Strip(Join(SubSeq(tokens, 1, k)))
              g6 == PrefixIn(tokens[k + 5], GroupedDigit)
              rest6 == SubSeq(tokens[k + 5], Len(g6) + 1, Len(tokens[k + 5]))
              r == IF rest6 # <<>> THEN rest6
                   ELSE IF Len(tokens) >= k + 6 THEN tokens[k + 6]
                   ELSE <<>>
          IN  IF type_desc = <<>> \/ type_desc = TotalColon THEN NoRow
              ELSE [matched |-> TRUE,
                    Type |-> type_desc,
                    International |-> tokens[k + 1],
                    Ground |-> RemoveCommas(tokens[k + 2]),
                    Air |-> tokens[k + 3],
                    Unknown |-> tokens[k + 4],
                    Total_Packages |-> RemoveCommas(g6),
                    Weight |-> WeightGroup(r)]

\* data after the (possibly merged) line has been matched against the columns
WithRow(data, ln) ==
    IF MatchColumns(ln).matched THEN Append(data, MatchColumns(ln)) ELSE data

\* the first test of the loop body: `not line or line.startswith('Total:')`
IsBlankOrTotal(ln) == ln = <<>> \/ StartsWith(ln, TotalColon)

\* the second test: the two metadata patterns
IsMetadata(ln) == IsDottedCode(ln) \/ IsBracketedPair(ln)

\* `i + 1 < len(lines) and re.match(r'^[\d.,]+$', lines[i + 1].strip())`,
\* for the 1-based cursor i
HasNumericNext(lines, i) == i + 1 <= Len(lines) /\ IsNumericLine(Strip(lines[i + 1]))

\* which branch one pass of the while loop takes at cursor i
Branch(lines, i) ==
    LET ln == Strip(lines[i])
    IN  IF IsBlankOrTotal(ln) THEN "skip"
        ELSE IF IsMetadata(ln) THEN "metadata"
        ELSE IF HasNumericNext(lines, i)
             THEN IF ContinuationRaises(Strip(lines[i + 1])) THEN "raise"
                  ELSE IF IsWeightContinuation(Strip(lines[i + 1])) THEN "merge"
                  ELSE "apart"
             ELSE "single"

\* the line matched against the columns in that pass
MatchedLine(lines, i) ==
    IF Branch(lines, i) = "merge"
    THEN Strip(lines[i]) \o <<" ">> \o Strip(lines[i + 1]) \o Lb
    ELSE Strip(lines[i])

\* the cursor after that pass
NextCursor(lines, i) == IF Branch(lines, i) = "merge" THEN i + 2 ELSE i + 1

\* the whole loop from cursor i: the rows, or the ValueError it raises
RECURSIVE TabularLoop(_, _, _)
TabularLoop(lines, i, data) ==
    IF i > Len(lines) THEN [raised |-> FALSE, data |-> data]
    ELSE IF Branch(lines, i) = "raise" THEN [raised |-> TRUE, data |-> <<>>]
    ELSE IF Branch(lines, i) \in {"skip", "metadata"} THEN TabularLoop(lines, i + 1, data)
    ELSE TabularLoop(lines, NextCursor(lines, i), WithRow(data, MatchedLine(lines, i)))

(***************************************************************************)
(* Inputs of the line parser: tokens, and the lines built from them.       *)
(***************************************************************************)
Trk1 == <<"1", "Z", "9", "9", "9", "A", "A", "1", "0", "1", "2", "3", "4", "5", "6", "7", "8", "4">>
Trk2 == <<"1", "Z", "1", "2", "3", "4", "5", "E", "0", "2", "0", "5", "2", "7", "1", "6", "8", "8">>
TrkHR == <<"H", "R", "A", "B", "C", "1", "2", "3", "-", "2", "0", "2", "4", "-", "7">>
W25lb == <<"2", ".", "5", "l", "b">>
T1015 == <<"1", "0", ":", "1", "5">>
T230 == <<"2", ":", "3", "0">>
D01052024 == <<"0", "1", "/", "0", "5", "/", "2", "0", "2", "4">>
D05 == <<"0", "5">>
DJan == <<"J", "a", "n">>
D2024 == <<"2", "0", "2", "4">>
Acme == <<"A", "c", "m", "e">>
Corp == <<"C", "o", "r", "p">>

\* `10:15 AM 01/05/2024 Acme Corp Ground 1Z999AA10123456784 2.5lb`
ScenarioLine == Join(<<T1015, AM, D01052024, Acme, Corp, Ground, Trk1, W25lb>>)

SampleLines ==
    { ScenarioLine,
      Join(<<T1015, AM, D05, DJan, D2024, Acme, Corp, Ground, Trk1, W25lb>>),
      Join(<<T230, PM, D05, DJan, D2024, Acme, Ground, Express, TrkHR, NA, Com>>),
      Join(<<T230, PM, D05, DJan, D2024, Ground, Trk2, W25lb, ManWt>>),
      Join(<<T230, PM, D05, DJan, D2024, Ground, Trk2, ManWt>>) }

LineTokens == {AM, Trk1, Trk2, TrkHR, Ground, W25lb}

\* the largest number of tokens of a generated line
MaxLineTokens == 4

GeneratedLines ==
    { Join(ts) : ts \in UNION { [1..n -> LineTokens] : n \in 0..MaxLineTokens } }

LineInputs == SampleLines \cup GeneratedLines

\* vocabularies handed to the line parser, each sorted by descending length
Vocabularies == { <<>>, <<GroundExpress, Ground>> }

(***************************************************************************)
(* Inputs of the vocabulary builder and of split_customer_service.         *)
(***************************************************************************)
Economy == <<"E", "c", "o", "n", "o", "m", "y">>
Third == <<"3", "r", "d">>
W5lb == <<"5", "l", "b">>
Frag1Z == <<"1", "Z", "A", "B", "C">>

\* a line `10:15 AM 05 Jan 2024 <tokens>`
Dated(tokens) == Join(<<T1015, AM, D05, DJan, D2024>> \o tokens)

\* a service text of exactly 50 characters
Label50 == Join(<<Ground, Express, Economy, Ground, Express, Economy, Corp>>)

\* a service text of 60 characters
Label60 == Join(<<Ground, Express, Economy, Ground, Express, Economy, Ground, Express>>)

\* lines of the sampled pages: labels that are suffixes of one another, two
\* labels of equal length, labels with a trailing weight or tracking
\* fragment, service texts of 3, 50 and 60 characters, and a line that
\* contributes no label
VocabLines ==
    { Dated(<<Ground, Trk1, W25lb>>),
      Dated(<<Ground, Express, Trk1, W25lb>>),
      Dated(<<Express, Trk2, W25lb>>),
      Dated(<<Economy, Trk2, W25lb>>),
      Dated(<<Third, W5lb, Trk1, W25lb>>),
      Dated(<<Ground, Frag1Z, Trk1, W25lb>>),
      Dated(<<Acme, Ground, Trk1, W25lb>>),
      Dated(<<Third, Trk1, W25lb>>),
      Dated(<<Label50, Trk1, W25lb>>),
      Dated(<<Label60, Trk1, W25lb>>) }

\* the largest number of sampled lines
MaxSampleLines == 3

Samples == UNION { [1..n -> VocabLines] : n \in 0..MaxSampleLines }

\* customer+service fields
Fields ==
    { <<>>,
      Acme,
      Join(<<Acme, Ground>>),
      Join(<<Acme, Ground, Express>>),
      GroundExpress,
      Join(<<Acme, Economy>>),
      Join(<<Acme, Third>>),
      Join(<<Acme, Express, Ground>>) }

(***************************************************************************)
(* Inputs of the tabular summary parser.                                   *)
(***************************************************************************)
Domestic == <<"D", "o", "m", "e", "s", "t", "i", "c">>
DomesticRow == Join(<<Domestic, <<"1">>, <<"2">>, <<"3">>, <<"4">>, <<"1", "0">>>>)
N1500 == <<"1", "5", "0", "0">>
N250000 == <<"2", "5", "0", "0", "0", "0">>
N100000 == <<"1", "0", "0", "0", "0", "0">>
N99999 == <<"9", "9", ",", "9", "9", "9">>
N2p5 == <<"2", ".", "5">>
OnlyComma == <<",">>
DottedCode == <<"1", ".", "2", ".", "3", ".", "4">>
BracketLine == <<"(", "A", "A", "-", "B", "B", ")", " ", "x">>
TotalLine == <<"T", "o", "t", "a", "l", ":", " ", "1", "2">>

\* lines of a summary block: rows with and without columns, look-ahead
\* lines around the threshold, and the three kinds of metadata line
BlockLines ==
    { Domestic, DomesticRow, N1500, N250000, N100000, N99999, N2p5, OnlyComma,
      DottedCode, BracketLine, TotalLine, <<>> }

\* the largest number of lines of a summary block
MaxBlockLines == 2

\* lines = match.group(1).strip().split('\n'): the stripped text has no blank
\* first or last line, unless it is empty and splits into one empty line
Blocks ==
    { b \in UNION { [1..n -> BlockLines] : n \in 1..MaxBlockLines } :
         Len(b) = 1 \/ (b[1] # <<>> /\ b[Len(b)] # <<>>) }

(***************************************************************************)
(* The pipeline, main.  The document is given by what the code reads from  *)
(* it: the lines of one region of text, the sections whose boundary        *)
(* pattern matches that region (re.findall returns [] for the others), and *)
(* the blocks the two summary patterns match, if they match.               *)
(***************************************************************************)
\* parse_section for one section: the entries of the lines that parse, in order
RECURSIVE ParseLines(_, _, _)
ParseLines(lines, vocab, patterns) ==
    IF lines = <<>> THEN <<>>
    ELSE LET e == parse_line_entry(Head(lines), vocab, patterns)
         IN  (IF e.matched THEN <<e>> ELSE <<>>) \o ParseLines(Tail(lines), vocab, patterns)

RECURSIVE parse_section(_, _, _)
parse_section(matches, sec, vocab) ==
    IF matches = <<>> THEN <<>>
    ELSE ParseLines(Head(matches), vocab, TrackingPatterns(sec))
         \o parse_section(Tail(matches), sec, vocab)

\* a summary pattern that matches nothing
NoBlock == [found |-> FALSE, lines |-> <<>>]

\* parse_tabular_section: [] without a match, else the loop over the block
parse_tabular_section(blk) ==
    IF ~blk.found THEN [raised |-> FALSE, data |-> <<>>]
    ELSE TabularLoop(blk.lines, 1, <<>>)

\* the names of sheets_data, in its order
TableKeys == <<"drop_off", "enhanced", "mobile", "summary", "kiosk">>

SheetName(key) ==
    CASE key = "summary" -> "Summary"
      [] key = "kiosk" -> "Kiosk Summary"
      [] OTHER -> SectionName(key)

AllSheetNames == [k \in 1..Len(TableKeys) |-> SheetName(TableKeys[k])]

\* create_worksheet returns without creating a sheet `if not data`
HasSheet(rows) == rows # <<>>

NonEmptyKey(tables, k) == HasSheet(tables[TableKeys[k]])

\* the sheets create_excel_file creates, in order
SheetsOf(tables) ==
    LET keep == { k \in 1..Len(TableKeys) : NonEmptyKey(tables, k) }
    IN  [n \in 1..Cardinality(keep) |-> SheetName(TableKeys[Nth(keep, n)])]

NoTables == [k \in {"drop_off", "enhanced", "mobile", "summary", "kiosk"} |-> <<>>]

\* lines of a section of the document
MainLines ==
    { Dated(<<Ground, Express, Trk1, W25lb>>),
      Dated(<<Express, Trk2, W25lb>>),
      Join(<<T230, PM, D05, DJan, D2024, Economy, Trk2, NA, Com>>) }

\* the largest number of lines of the region
MaxSectionLines == 2

Bodies == UNION { [1..n -> MainLines] : n \in 0..MaxSectionLines }

SummaryInputs ==
    { NoBlock,
      [found |-> TRUE, lines |-> <<DomesticRow, N1500>>],
      [found |-> TRUE, lines |-> <<DomesticRow, OnlyComma>>] }

KioskInputs ==
    { NoBlock,
      [found |-> TRUE, lines |-> <<DomesticRow, N2p5>>],
      [found |-> TRUE, lines |-> <<DomesticRow, OnlyComma>>] }

Documents ==
    [body : Bodies, found : SUBSET Sections, summary : SummaryInputs, kiosk : KioskInputs]

\* the lines of the pages the vocabulary builder scans
PageLines(d) == d.body \o d.summary.lines \o d.kiosk.lines

\* re.findall(section_config['pattern'], text) split into lines
Matches(d, sec) == IF sec \in d.found THEN <<d.body>> ELSE <<>>

(***************************************************************************)
(* State.  Each specification below exercises one part of the program and  *)
(* leaves the variables of the other parts at their idle values.           *)
(***************************************************************************)
VARIABLES
    \* parse_line_entry
    line,            \* its argument line
    section,         \* the section whose tracking_patterns it is given
    service_types,   \* its argument service_types
    entry,           \* its return value
    lpc,             \* "start" before the call, "parsed" after it
    \* extract_service_types_from_pdf and split_customer_service
    sample,          \* the lines of the sampled pages
    vocabulary,      \* the list the builder returned
    field,           \* the customer+service field given to the split
    split,           \* the (customer, service) pair the split returned
    vpc,             \* "start", "built", "split"
    \* parse_tabular_section
    block,           \* the list lines
    i,               \* the cursor i, 1-based
    data,            \* the list data
    last,            \* the pass of the loop taken last: its branch, the cursor
                     \* it started at and the line it matched against the columns
    tpc,             \* "loop", "returned", "raised"
    \* main
    doc,             \* the input document
    run,             \* 1 for the first run over doc, 2 for the second
    mpc,             \* the stage main is at, "done" or "exited"
    vocab,           \* main's service_types
    tables,          \* drop_off_data, enhanced_data, mobile_data, summary_data, kiosk_data
    sheets,          \* the sheets of the saved workbook
    diagnostics,     \* the number of `Error: ...` lines written to stderr
    cause,           \* the call whose exception ended the run, "none" if none
    first,           \* what the first run left: its stage, cause and tables
    \* PDFToExcelGUI
    input_path,      \* input_path_var, "" while no file is selected
    imported,        \* whether `from extract_to_excel import main` succeeded
    started,         \* the number of worker threads started so far
    wpc,             \* where each worker thread is in run_script
    sys_stdout,      \* sys.stdout: 0 is the stream installed at start-up,
                     \* w > 0 the StringIO that worker w created
    sys_stderr,      \* sys.stderr, likewise
    old_stdout,      \* each worker's local old_stdout
    old_stderr,      \* each worker's local old_stderr
    success,         \* each worker's local success: "unset", "yes", "no"
    progress,        \* whether the progress bar is running
    reported,        \* what each worker logged last: "none", "success", "error"
    asked,           \* whether "Please select a PDF file." was logged
    closing,         \* whether root.destroy is scheduled
    closed           \* whether the window was destroyed

lineVars == <<line, section, service_types, entry, lpc>>

vocabVars == <<sample, vocabulary, field, split, vpc>>

tabVars == <<block, i, data, last, tpc>>

mainVars == <<doc, run, mpc, vocab, tables, sheets, diagnostics, cause, first>>

guiVars ==
    <<input_path, imported, started, wpc, sys_stdout, sys_stderr, old_stdout,
      old_stderr, success, progress, reported, asked, closing, closed>>

vars == <<lineVars, vocabVars, tabVars, mainVars, guiVars>>

(***************************************************************************)
(* parse_line_entry on one line.                                           *)
(***************************************************************************)
LineIdle ==
    /\ line = <<>>
    /\ section = "drop_off"
    /\ service_types = <<>>
    /\ entry = NoEntry
    /\ lpc = "idle"

LineInit ==
    /\ line \in LineInputs
    /\ section \in Sections
    /\ service_types \in Vocabularies
    /\ entry = NoEntry
    /\ lpc = "start"

ParseLine ==
    /\ lpc = "start"
    /\ entry' = parse_line_entry(line, service_types, TrackingPatterns(section))
    /\ lpc' = "parsed"
    /\ UNCHANGED <<line, section, service_types>>

(***************************************************************************)
(* The vocabulary builder on a sample, then the split of a field with the  *)
(* vocabulary it returned.                                                 *)
(***************************************************************************)
NoSplit == [Customer |-> <<>>, Service |-> <<>>]

VocabIdle ==
    /\ sample = <<>>
    /\ vocabulary = <<>>
    /\ field = <<>>
    /\ split = NoSplit
    /\ vpc = "idle"

VocabInit ==
    /\ sample \in Samples
    /\ vocabulary = <<>>
    /\ field = <<>>
    /\ split = NoSplit
    /\ vpc = "start"

BuildVocabulary ==
    /\ vpc = "start"
    /\ vocabulary' \in extract_service_types(sample)
    /\ vpc' = "built"
    /\ UNCHANGED <<sample, field, split>>

SplitField ==
    /\ vpc = "built"
    /\ \E f \in Fields :
          /\ field' = f
          /\ split' = split_customer_service(f, vocabulary)
    /\ vpc' = "split"
    /\ UNCHANGED <<sample, vocabulary>>

(***************************************************************************)
(* parse_tabular_section on a matched block, one pass of its while loop    *)
(* per step.                                                               *)
(***************************************************************************)
NoPass == [branch |-> "none", cursor |-> 0, matched |-> <<>>]

TabIdle ==
    /\ block = <<>>
    /\ i = 0
    /\ data = <<>>
    /\ last = NoPass
    /\ tpc = "idle"

TabInit ==
    /\ block \in Blocks
    /\ i = 1
    /\ data = <<>>
    /\ last = NoPass
    /\ tpc = "loop"

InLoop == tpc = "loop" /\ i <= Len(block)

\* `if not line or line.startswith('Total:'): i += 1; continue`
SkipBlankOrTotal ==
    /\ InLoop
    /\ Branch(block, i) = "skip"
    /\ i' = i + 1
    /\ last' = [branch |-> "skip", cursor |-> i, matched |-> <<>>]
    /\ UNCHANGED <<block, data, tpc>>

\* `if re.match(dotted code) or re.match(bracketed pair): i += 1; continue`
SkipMetadata ==
    /\ InLoop
    /\ Branch(block, i) = "metadata"
    /\ i' = i + 1
    /\ last' = [branch |-> "metadata", cursor |-> i, matched |-> <<>>]
    /\ UNCHANGED <<block, data, tpc>>

\* the next line is numeric and a weight: it is appended and i += 2
MergeNext ==
    /\ InLoop
    /\ Branch(block, i) = "merge"
    /\ i' = NextCursor(block, i)
    /\ data' = WithRow(data, MatchedLine(block, i))
    /\ last' = [branch |-> "merge", cursor |-> i, matched |-> MatchedLine(block, i)]
    /\ UNCHANGED <<block, tpc>>

\* the next line is numeric and no weight: i += 1
KeepApart ==
    /\ InLoop
    /\ Branch(block, i) = "apart"
    /\ i' = NextCursor(block, i)
    /\ data' = WithRow(data, MatchedLine(block, i))
    /\ last' = [branch |-> "apart", cursor |-> i, matched |-> MatchedLine(block, i)]
    /\ UNCHANGED <<block, tpc>>

\* there is no next line or it is not numeric: i += 1
MatchSingle ==
    /\ InLoop
    /\ Branch(block, i) = "single"
    /\ i' = NextCursor(block, i)
    /\ data' = WithRow(data, MatchedLine(block, i))
    /\ last' = [branch |-> "single", cursor |-> i, matched |-> MatchedLine(block, i)]
    /\ UNCHANGED <<block, tpc>>

\* float('') raises ValueError, which parse_tabular_section does not catch
RaiseValueError ==
    /\ InLoop
    /\ Branch(block, i) = "raise"
    /\ tpc' = "raised"
    /\ last' = [branch |-> "raise", cursor |-> i, matched |-> <<>>]
    /\ UNCHANGED <<block, i, data>>

\* `return data`
ReturnData ==
    /\ tpc = "loop"
    /\ i > Len(block)
    /\ tpc' = "returned"
    /\ UNCHANGED <<block, i, data, last>>

(***************************************************************************)
(* main, one stage per step; a second run over the same document follows   *)
(* the first.  An exception in a stage is caught by main's handler, which  *)
(* prints one diagnostic and calls sys.exit(1).                            *)
(***************************************************************************)
NoFirst ==
    [mpc |-> "none", cause |-> "none", vocab |-> <<>>, tables |-> NoTables, sheets |-> <<>>]

MainIdle ==
    /\ doc = [body |-> <<>>, found |-> {}, summary |-> NoBlock, kiosk |-> NoBlock]
    /\ run = 0
    /\ mpc = "idle"
    /\ vocab = <<>>
    /\ tables = NoTables
    /\ sheets = <<>>
    /\ diagnostics = 0
    /\ cause = "none"
    /\ first = NoFirst

MainInit ==
    /\ doc \in Documents
    /\ run = 1
    /\ mpc = "start"
    /\ vocab = <<>>
    /\ tables = NoTables
    /\ sheets = <<>>
    /\ diagnostics = 0
    /\ cause = "none"
    /\ first = NoFirst

\* `except Exception as e: print(f"Error: {e}", file=sys.stderr); sys.exit(1)`
Exits(c) ==
    /\ mpc' = "exited"
    /\ cause' = c
    /\ diagnostics' = diagnostics + 1

\* service_types = extract_service_types_from_pdf(pdf_path), which raises
\* when the document cannot be opened or read
ReadVocabulary ==
    /\ mpc = "start"
    /\ \/ /\ Exits("extract_service_types_from_pdf")
          /\ UNCHANGED vocab
       \/ /\ vocab' \in extract_service_types(PageLines(doc))
          /\ mpc' = "text"
          /\ UNCHANGED <<diagnostics, cause>>
    /\ UNCHANGED <<doc, run, tables, sheets, first>>

\* extract_report_info, which raises nothing, then
\* full_text = extract_pdf_text(pdf_path), which raises when the text
\* cannot be rendered
ExtractText ==
    /\ mpc = "text"
    /\ \/ Exits("extract_pdf_text")
       \/ /\ mpc' = "drop_off"
          /\ UNCHANGED <<diagnostics, cause>>
    /\ UNCHANGED <<doc, run, vocab, tables, sheets, first>>

StageAfter(sec) ==
    CASE sec = "drop_off" -> "enhanced"
      [] sec = "enhanced" -> "mobile"
      [] OTHER -> "summary"

\* <section>_data = parse_section(full_text, SECTION_CONFIGS[<section>], service_types)
ParseSection ==
    /\ mpc \in Sections
    /\ tables' = [tables EXCEPT ![mpc] = parse_section(Matches(doc, mpc), mpc, vocab)]
    /\ mpc' = StageAfter(mpc)
    /\ UNCHANGED <<doc, run, vocab, sheets, diagnostics, cause, first>>

\* summary_data = parse_tabular_section(full_text, "Summary")
ParseSummary ==
    /\ mpc = "summary"
    /\ LET r == parse_tabular_section(doc.summary)
       IN  \/ /\ r.raised
              /\ Exits("parse_tabular_section Summary")
              /\ UNCHANGED tables
           \/ /\ ~r.raised
              /\ tables' = [tables EXCEPT !["summary"] = r.data]
              /\ mpc' = "kiosk"
              /\ UNCHANGED <<diagnostics, cause>>
    /\ UNCHANGED <<doc, run, vocab, sheets, first>>

\* kiosk_data = parse_tabular_section(full_text, "Kiosk Summary")
ParseKiosk ==
    /\ mpc = "kiosk"
    /\ LET r == parse_tabular_section(doc.kiosk)
       IN  \/ /\ r.raised
              /\ Exits("parse_tabular_section Kiosk Summary")
              /\ UNCHANGED tables
           \/ /\ ~r.raised
              /\ tables' = [tables EXCEPT !["kiosk"] = r.data]
              /\ mpc' = "excel"
              /\ UNCHANGED <<diagnostics, cause>>
    /\ UNCHANGED <<doc, run, vocab, sheets, first>>

\* create_excel_file(output_filename, sheets_data).  With no sheet at all
\* the source does not decide what wb.save does: the library may write the
\* file or raise.
CreateExcel ==
    /\ mpc = "excel"
    /\ \/ /\ sheets' = SheetsOf(tables)
          /\ mpc' = "done"
          /\ UNCHANGED <<diagnostics, cause>>
       \/ /\ SheetsOf(tables) = <<>>
          /\ Exits("create_excel_file")
          /\ UNCHANGED sheets
    /\ UNCHANGED <<doc, run, vocab, tables, first>>

\* the pipeline is run again over the same document
RunAgain ==
    /\ run = 1
    /\ mpc \in {"done", "exited"}
    /\ first' = [mpc |-> mpc, cause |-> cause, vocab |-> vocab, tables |-> tables,
                 sheets |-> sheets]
    /\ run' = 2
    /\ mpc' = "start"
    /\ vocab' = <<>>
    /\ tables' = NoTables
    /\ sheets' = <<>>
    /\ diagnostics' = 0
    /\ cause' = "none"
    /\ UNCHANGED doc

(***************************************************************************)
(* The GUI front-end.  The UI thread handles the buttons; every worker     *)
(* thread runs run_script, a few statements per step, interleaved with     *)
(* the UI thread and with the other workers.                               *)
(***************************************************************************)
\* the largest number of worker threads started
MaxWorkers == 2

Workers == 1..MaxWorkers

Paths == {"report.pdf"}

\* the pipeline entry point called by a worker: it returns, or it prints
\* its diagnostic and calls sys.exit(1), which raises SystemExit
MainOutcomes == {"returns", "sys.exit(1)"}

GuiIdle ==
    /\ input_path = ""
    /\ imported = TRUE
    /\ started = 0
    /\ wpc = <<>>
    /\ sys_stdout = 0
    /\ sys_stderr = 0
    /\ old_stdout = <<>>
    /\ old_stderr = <<>>
    /\ success = <<>>
    /\ progress = FALSE
    /\ reported = <<>>
    /\ asked = FALSE
    /\ closing = FALSE
    /\ closed = FALSE

GuiInit ==
    /\ input_path = ""
    /\ imported \in BOOLEAN
    /\ started = 0
    /\ wpc = [w \in Workers |-> "unborn"]
    /\ sys_stdout = 0
    /\ sys_stderr = 0
    /\ old_stdout = [w \in Workers |-> 0]
    /\ old_stderr = [w \in Workers |-> 0]
    /\ success = [w \in Workers |-> "unset"]
    /\ progress = FALSE
    /\ reported = [w \in Workers |-> "none"]
    /\ asked = FALSE
    /\ closing = FALSE
    /\ closed = FALSE

\* browse_file: the dialog returns a path, or '' when it is cancelled
BrowseFile ==
    /\ ~closed
    /\ \E file_path \in Paths \cup {""} :
          input_path' = IF file_path # "" THEN file_path ELSE input_path
    /\ UNCHANGED <<imported, started, wpc, sys_stdout, sys_stderr, old_stdout,
                   old_stderr, success, progress, reported, asked, closing, closed>>

\* start_conversion with no file selected: it logs the request and returns
StartWithoutPath ==
    /\ ~closed
    /\ input_path = ""
    /\ asked' = TRUE
    /\ UNCHANGED <<input_path, imported, started, wpc, sys_stdout, sys_stderr,
                   old_stdout, old_stderr, success, progress, reported, closing, closed>>

\* start_conversion with a file selected: the progress bar starts and a new
\* worker thread is started, whether or not an earlier one is still running
StartConversion ==
    /\ ~closed
    /\ input_path # ""
    /\ started < MaxWorkers
    /\ progress' = TRUE
    /\ started' = started + 1
    /\ wpc' = [wpc EXCEPT ![started + 1] = "save"]
    /\ UNCHANGED <<input_path, imported, sys_stdout, sys_stderr, old_stdout,
                   old_stderr, success, reported, asked, closing, closed>>

\* old_stdout = sys.stdout; old_stderr = sys.stderr
SaveStreams(w) ==
    /\ ~closed
    /\ wpc[w] = "save"
    /\ old_stdout' = [old_stdout EXCEPT ![w] = sys_stdout]
    /\ old_stderr' = [old_stderr EXCEPT ![w] = sys_stderr]
    /\ wpc' = [wpc EXCEPT ![w] = "redirect"]
    /\ UNCHANGED <<input_path, imported, started, sys_stdout, sys_stderr, success,
                   progress, reported, asked, closing, closed>>

\* sys.stdout = io.StringIO(); sys.stderr = io.StringIO()
Redirect(w) ==
    /\ ~closed
    /\ wpc[w] = "redirect"
    /\ sys_stdout' = w
    /\ sys_stderr' = w
    /\ wpc' = [wpc EXCEPT ![w] = "call"]
    /\ UNCHANGED <<input_path, imported, started, old_stdout, old_stderr, success,
                   progress, reported, asked, closing, closed>>

\* the inner try: extract_main(pdf_path).  Calling None (the import failed)
\* raises TypeError, which `except Exception` catches.  SystemExit is no
\* Exception: neither handler of run_script catches it, and the thread ends
\* there, silently.
CallMain(w) ==
    /\ ~closed
    /\ wpc[w] = "call"
    /\ \/ /\ ~imported
          /\ success' = [success EXCEPT ![w] = "no"]
          /\ wpc' = [wpc EXCEPT ![w] = "restore"]
       \/ /\ imported
          /\ \E outcome \in MainOutcomes :
                IF outcome = "returns"
                THEN /\ success' = [success EXCEPT ![w] = "yes"]
                     /\ wpc' = [wpc EXCEPT ![w] = "restore"]
                ELSE /\ UNCHANGED success
                     /\ wpc' = [wpc EXCEPT ![w] = "ended"]
    /\ UNCHANGED <<input_path, imported, started, sys_stdout, sys_stderr, old_stdout,
                   old_stderr, progress, reported, asked, closing, closed>>

\* output = sys.stdout.getvalue(); errors = sys.stderr.getvalue(); then the
\* streams are set back.  The stream installed at start-up has no getvalue:
\* the AttributeError is caught by the outer handler, which sets the streams
\* back, stops the progress bar and logs the exception.
Restore(w) ==
    /\ ~closed
    /\ wpc[w] = "restore"
    /\ sys_stdout' = old_stdout[w]
    /\ sys_stderr' = old_stderr[w]
    /\ IF sys_stdout = 0 \/ sys_stderr = 0
       THEN /\ progress' = FALSE
            /\ reported' = [reported EXCEPT ![w] = "error"]
            /\ wpc' = [wpc EXCEPT ![w] = "ended"]
       ELSE /\ wpc' = [wpc EXCEPT ![w] = "display"]
            /\ UNCHANGED <<progress, reported>>
    /\ UNCHANGED <<input_path, imported, started, old_stdout, old_stderr, success,
                   asked, closing, closed>>

\* the captured lines are logged; self.progress.stop()
Display(w) ==
    /\ ~closed
    /\ wpc[w] = "display"
    /\ progress' = FALSE
    /\ wpc' = [wpc EXCEPT ![w] = "report"]
    /\ UNCHANGED <<input_path, imported, started, sys_stdout, sys_stderr, old_stdout,
                   old_stderr, success, reported, asked, closing, closed>>

\* `if success:` the success message and root.after(3000, root.destroy),
\* `else:` the error message
Report(w) ==
    /\ ~closed
    /\ wpc[w] = "report"
    /\ reported' = [reported EXCEPT ![w] = IF success[w] = "yes" THEN "success" ELSE "error"]
    /\ closing' = (closing \/ success[w] = "yes")
    /\ wpc' = [wpc EXCEPT ![w] = "ended"]
    /\ UNCHANGED <<input_path, imported, started, sys_stdout, sys_stderr, old_stdout,
                   old_stderr, success, progress, asked, closed>>

\* the timer fires: root.destroy ends the main loop and, with it, the
\* process and its daemon threads
CloseWindow ==
    /\ closing
    /\ ~closed
    /\ closed' = TRUE
    /\ UNCHANGED <<input_path, imported, started, wpc, sys_stdout, sys_stderr,
                   old_stdout, old_stderr, success, progress, reported, asked, closing>>

(***************************************************************************)
(* Specifications.                                                         *)
(***************************************************************************)
InitLine == LineInit /\ VocabIdle /\ TabIdle /\ MainIdle /\ GuiIdle

NextLine == ParseLine /\ UNCHANGED <<vocabVars, tabVars, mainVars, guiVars>>

SpecLine == InitLine /\ [][NextLine]_vars

InitVocab == VocabInit /\ LineIdle /\ TabIdle /\ MainIdle /\ GuiIdle

NextVocab ==
    \/ BuildVocabulary /\ UNCHANGED <<lineVars, tabVars, mainVars, guiVars>>
    \/ SplitField /\ UNCHANGED <<lineVars, tabVars, mainVars, guiVars>>

SpecVocab == InitVocab /\ [][NextVocab]_vars

InitTab == TabInit /\ LineIdle /\ VocabIdle /\ MainIdle /\ GuiIdle

NextTab ==
    \/ SkipBlankOrTotal /\ UNCHANGED <<lineVars, vocabVars, mainVars, guiVars>>
    \/ SkipMetadata /\ UNCHANGED <<lineVars, vocabVars, mainVars, guiVars>>
    \/ MergeNext /\ UNCHANGED <<lineVars, vocabVars, mainVars, guiVars>>
    \/ KeepApart /\ UNCHANGED <<lineVars, vocabVars, mainVars, guiVars>>
    \/ MatchSingle /\ UNCHANGED <<lineVars, vocabVars, mainVars, guiVars>>
    \/ RaiseValueError /\ UNCHANGED <<lineVars, vocabVars, mainVars, guiVars>>
    \/ ReturnData /\ UNCHANGED <<lineVars, vocabVars, mainVars, guiVars>>

SpecTab == InitTab /\ [][NextTab]_vars

InitMain == MainInit /\ LineIdle /\ VocabIdle /\ TabIdle /\ GuiIdle

NextMain ==
    \/ ReadVocabulary /\ UNCHANGED <<lineVars, vocabVars, tabVars, guiVars>>
    \/ ExtractText /\ UNCHANGED <<lineVars, vocabVars, tabVars, guiVars>>
    \/ ParseSection /\ UNCHANGED <<lineVars, vocabVars, tabVars, guiVars>>
    \/ ParseSummary /\ UNCHANGED <<lineVars, vocabVars, tabVars, guiVars>>
    \/ ParseKiosk /\ UNCHANGED <<lineVars, vocabVars, tabVars, guiVars>>
    \/ CreateExcel /\ UNCHANGED <<lineVars, vocabVars, tabVars, guiVars>>
    \/ RunAgain /\ UNCHANGED <<lineVars, vocabVars, tabVars, guiVars>>

SpecMain == InitMain /\ [][NextMain]_vars

InitGui == GuiInit /\ LineIdle /\ VocabIdle /\ TabIdle /\ MainIdle

NextGui ==
    \/ BrowseFile /\ UNCHANGED <<lineVars, vocabVars, tabVars, mainVars>>
    \/ StartWithoutPath /\ UNCHANGED <<lineVars, vocabVars, tabVars, mainVars>>
    \/ StartConversion /\ UNCHANGED <<lineVars, vocabVars, tabVars, mainVars>>
    \/ \E w \in Workers : SaveStreams(w) /\ UNCHANGED <<lineVars, vocabVars, tabVars, mainVars>>
    \/ \E w \in Workers : Redirect(w) /\ UNCHANGED <<lineVars, vocabVars, tabVars, mainVars>>
    \/ \E w \in Workers : CallMain(w) /\ UNCHANGED <<lineVars, vocabVars, tabVars, mainVars>>
    \/ \E w \in Workers : Restore(w) /\ UNCHANGED <<lineVars, vocabVars, tabVars, mainVars>>
    \/ \E w \in Workers : Display(w) /\ UNCHANGED <<lineVars, vocabVars, tabVars, mainVars>>
    \/ \E w \in Workers : Report(w) /\ UNCHANGED <<lineVars, vocabVars, tabVars, mainVars>>
    \/ CloseWindow /\ UNCHANGED <<lineVars, vocabVars, tabVars, mainVars>>

SpecGui == InitGui /\ [][NextGui]_vars

(***************************************************************************)
(* Properties of the line parser, under SpecLine.                          *)
(***************************************************************************)
\* the scenario line has been parsed with "Ground" in the vocabulary; every
\* section's pattern list holds the pattern 1Z + 16 alphanumerics
ScenarioParsed ==
    /\ lpc = "parsed"
    /\ line = ScenarioLine
    /\ \E k \in 1..Len(service_types) : service_types[k] = Ground

\* C1 as the claim states it: parse_line_entry on the scenario line returns
\* the record with Pickup Date "01/05/2024" and Customer "Acme Corp", the
\* date scan taking the date token only.
ScenarioRecordAsClaimed ==
    ScenarioParsed =>
        entry = [matched |-> TRUE,
                 Time |-> Join(<<T1015, AM>>),
                 Pickup_Date |-> D01052024,
                 Customer |-> Join(<<Acme, Corp>>),
                 Service |-> Ground,
                 Tracking_Number |-> Trk1,
                 Weight |-> W25lb]

\* C1, amended: parse_line_entry on the scenario line, with "Ground" in the
\* vocabulary, returns the record Time "10:15 AM", Pickup Date
\* "01/05/2024 Acme Corp", Customer "", Service "Ground", Tracking Number
\* "1Z999AA10123456784", Weight "2.5lb": the date scan takes the three
\* tokens after the time marker, none of which has a tracking prefix, so
\* the customer tokens end up in the pickup date.
ScenarioRecord ==
    ScenarioParsed =>
        entry = [matched |-> TRUE,
                 Time |-> Join(<<T1015, AM>>),
                 Pickup_Date |-> Join(<<D01052024, Acme, Corp>>),
                 Customer |-> <<>>,
                 Service |-> Ground,
                 Tracking_Number |-> Trk1,
                 Weight |-> W25lb]

\* the scenario line was parsed into a record whose service is "Ground"
ScenarioReached == ScenarioParsed /\ entry.matched /\ entry.Service = Ground

\* the (pattern, token) index pairs of the tokens that match a pattern
TrackingCandidates(parts, patterns) ==
    { c \in (1..Len(patterns)) \X (1..Len(parts)) : MatchPattern(patterns[c[1]], parts[c[2]]) }

\* the token chosen by pattern priority first and line order second
FirstByPriority(parts, patterns) ==
    LET cs == TrackingCandidates(parts, patterns)
        c == CHOOSE c \in cs :
                \A d \in cs : c[1] < d[1] \/ (c[1] = d[1] /\ c[2] <= d[2])
    IN  parts[c[2]]

\* the parsed line holds a time marker and a token matching a pattern of
\* its section
CandidateLineParsed ==
    /\ lpc = "parsed"
    /\ \E k \in 1..Len(Split(line)) : IsTimeMarker(Split(line)[k])
    /\ TrackingCandidates(Split(line), TrackingPatterns(section)) # {}

\* C2 as the claim states it: every line, of any token count, with a time
\* marker and a token matching a tracking pattern yields a record whose
\* Tracking Number is the first match by pattern priority, then line order.
TrackingOfEveryCandidateLine ==
    CandidateLineParsed =>
        /\ entry.matched
        /\ entry.Tracking_Number = FirstByPriority(Split(line), TrackingPatterns(section))

\* C2, amended: every line of at least four tokens with a time marker and a
\* token matching a tracking pattern of its section yields a record whose
\* Tracking Number is the first match by pattern priority, then line order.
TrackingOfCandidateLine ==
    CandidateLineParsed /\ Len(Split(line)) >= 4 =>
        /\ entry.matched
        /\ entry.Tracking_Number = FirstByPriority(Split(line), TrackingPatterns(section))

\* a line of the enhanced section in which a token of the second pattern
\* comes before a token of the first pattern was parsed, and the record
\* holds the token of the first pattern
PriorityBeatsLineOrder ==
    /\ CandidateLineParsed
    /\ section = "enhanced"
    /\ Len(Split(line)) >= 4
    /\ \E j, k \in 1..Len(Split(line)) :
          /\ j < k
          /\ MatchPattern("HR", Split(line)[j])
          /\ MatchPattern("1Z", Split(line)[k])
          /\ entry.Tracking_Number = Split(line)[k]

(***************************************************************************)
(* Properties of the vocabulary and of the split, under SpecVocab.         *)
(***************************************************************************)
\* the vocabulary entries that are a suffix of the field f
SuffixEntries(f) ==
    { k \in 1..Len(vocabulary) : EndsWith(f, vocabulary[k]) }

\* C3: with a vocabulary the builder returned and a non-empty field,
\* split_customer_service returns as Service the longest entry that is a
\* suffix of the field and as Customer the trimmed remainder; when no entry
\* is a suffix, Service is empty and Customer is the whole field.
LongestSuffixIsService ==
    vpc = "split" /\ field # <<>> =>
        IF SuffixEntries(field) = {}
        THEN split = [Customer |-> field, Service |-> <<>>]
        ELSE /\ \E k \in SuffixEntries(field) : split.Service = vocabulary[k]
             /\ \A k \in SuffixEntries(field) : Len(split.Service) >= Len(vocabulary[k])
             /\ split.Customer =
                   Strip(SubSeq(field, 1, Len(field) - Len(split.Service)))

\* a field ending in "Ground Express" was split with a vocabulary holding
\* both "Ground Express" and a shorter suffix of it, a customer left over
LongestLabelChosen ==
    /\ vpc = "split"
    /\ \E j, k \in 1..Len(vocabulary) :
          vocabulary[j] = GroundExpress /\ vocabulary[k] = Express
    /\ EndsWith(field, GroundExpress)
    /\ split.Service = GroundExpress
    /\ split.Customer = Acme

\* the label begins with one of the fixed service-name prefixes
HasServicePrefix(label) ==
    \E k \in 1..Len(SERVICE_PREFIXES) : StartsWith(label, SERVICE_PREFIXES[k])

\* the list has no duplicates and is sorted by non-increasing length
DistinctAndSorted(labels) ==
    \A a, b \in 1..Len(labels) :
        a < b => labels[a] # labels[b] /\ Len(labels[a]) >= Len(labels[b])

\* C11 as the claim states it: every label of the list the builder returns
\* begins with a service-name prefix and has between 4 and 50 characters
\* after the stripping of trailing fragments, and the list has no
\* duplicates and is sorted by non-increasing length.
LabelsWithinLengthBounds ==
    vpc = "built" =>
        /\ \A k \in 1..Len(vocabulary) :
              /\ HasServicePrefix(vocabulary[k])
              /\ 4 <= Len(vocabulary[k])
              /\ Len(vocabulary[k]) <= 50
        /\ DistinctAndSorted(vocabulary)

\* C11, amended: every label of the list the builder returns begins with a
\* service-name prefix, has at most 50 characters and is the beginning of a
\* collected service text of 4 to 50 characters (the length test is made
\* before the stripping, so a stripped label can be shorter than 4), and
\* the list has no duplicates and is sorted by non-increasing length.
LabelsOfAcceptedTexts ==
    vpc = "built" =>
        /\ \A k \in 1..Len(vocabulary) :
              /\ HasServicePrefix(vocabulary[k])
              /\ Len(vocabulary[k]) <= 50
              /\ \E n \in 1..Len(sample) :
                    /\ ServiceText(sample[n]) # None
                    /\ 4 <= Len(ServiceText(sample[n]))
                    /\ Len(ServiceText(sample[n])) <= 50
                    /\ StartsWith(ServiceText(sample[n]), vocabulary[k])
        /\ DistinctAndSorted(vocabulary)

\* the builder returned a list with the 50-character label and a label
\* that the stripping of a weight fragment made shorter than 4, from a
\* sample that also held the 60-character text
StrippedAndLongLabelsBuilt ==
    /\ vpc = "built"
    /\ Len(vocabulary) = 2
    /\ vocabulary[1] = Label50
    /\ vocabulary[2] = Third
    /\ \E n \in 1..Len(sample) : ServiceText(sample[n]) = Label60

(***************************************************************************)
(* Properties of the tabular parser, under SpecTab.                        *)
(***************************************************************************)
\* the look-ahead line of the last pass
LookAhead == Strip(block[last.cursor + 1])

\* the last pass was at a line that was not skipped and that a line made
\* only of digits, dots and commas follows
PassWithNumericNext == last.branch \in {"merge", "apart", "raise"}

HasDecimalPoint(s) == \E k \in 1..Len(s) : s[k] = "."

\* the line has an integer value once its thousands separators are removed
HasIntegerValue(s) == ~HasDecimalPoint(s) /\ RemoveCommas(s) # <<>>

IntegerValue(s) == DigitsValue(RemoveCommas(s))

\* the merge rule at the last pass
MergeRuleAtPass ==
    PassWithNumericNext =>
        /\ last.branch = "merge" <=>
              \/ HasDecimalPoint(LookAhead)
              \/ HasIntegerValue(LookAhead) /\ IntegerValue(LookAhead) < 100000
        /\ last.branch = "merge" =>
              /\ last.matched = Strip(block[last.cursor]) \o <<" ">> \o LookAhead \o Lb
              /\ i = last.cursor + 2
        /\ HasIntegerValue(LookAhead) /\ IntegerValue(LookAhead) >= 100000 =>
              /\ last.branch = "apart"
              /\ last.matched = Strip(block[last.cursor])
              /\ i = last.cursor + 1

\* after a pass that did not merge, the next pass is at the second line
SecondLineOnItsOwn ==
    last.branch = "apart" /\ last' # last => last'.cursor = last.cursor + 1

\* C4: when the current non-skipped line is followed by a line made only of
\* digits, dots and commas, the next line is appended with an "lb" suffix
\* and the cursor advances by two if and only if the next line has a
\* decimal point or an integer value below 100000; with a value of 100000
\* or more nothing is appended, the cursor advances by one and the second
\* line is then evaluated as a current line of its own.
MergeThresholdRule == []MergeRuleAtPass /\ [][SecondLineOnItsOwn]_vars

\* "Domestic" then "1500" was matched as "Domestic 1500lb"
DomesticMerged ==
    /\ block = <<Domestic, N1500>>
    /\ last.branch = "merge"
    /\ last.matched = Join(<<Domestic, N1500 \o Lb>>)
    /\ i = 3

\* the lines of the block that are metadata: a dotted code, a bracketed
\* pair or a Total: footer
MetadataLines ==
    { Strip(block[k]) : k \in { j \in 1..Len(block) :
         IsMetadata(Strip(block[j])) \/ StartsWith(Strip(block[j]), TotalColon) } }

RowFields(r) ==
    { r.Type, r.International, r.Ground, r.Air, r.Unknown, r.Total_Packages, r.Weight }

\* C10: a metadata line of the block (a dotted code d.d.d.d, a line starting
\* with a bracketed two-letter pair, a Total: footer) contributes to no
\* row: its text appears in no field of any row, whatever line precedes it.
MetadataInNoRow ==
    \A k \in 1..Len(data) : \A f \in RowFields(data[k]) : \A m \in MetadataLines :
        ~Contains(f, m)

(***************************************************************************)
(* Properties of the pipeline, under SpecMain.                             *)
(***************************************************************************)
\* C5: for a document whose text was extracted, no content of a section
\* line or of a summary-block line makes parse_section or
\* parse_tabular_section raise: main never reaches its error exit because
\* of line or row content.
NoExitOnLineContent ==
    mpc = "exited" =>
        cause \notin {"parse_tabular_section Summary", "parse_tabular_section Kiosk Summary"}

\* the stages after the parsing of the section sec
AfterSection(sec) ==
    CASE sec = "drop_off" -> {"enhanced", "mobile", "summary", "kiosk", "excel", "done"}
      [] sec = "enhanced" -> {"mobile", "summary", "kiosk", "excel", "done"}
      [] OTHER -> {"summary", "kiosk", "excel", "done"}

\* C6: a section whose boundary pattern has no match yields an empty table
\* and no error, and the outcome of every run is either the complete set of
\* the five named tables, some possibly empty, or exactly one diagnostic
\* message with a non-zero exit status.
CompleteTablesOrOneDiagnostic ==
    /\ \A sec \in Sections :
          mpc \in AfterSection(sec) /\ sec \notin doc.found => tables[sec] = <<>>
    /\ mpc = "done" => sheets = AllSheetNames
    /\ mpc = "exited" => diagnostics = 1

\* both runs over the document came to their end
BothRunsDone == run = 2 /\ mpc = "done" /\ first.mpc = "done"

\* C7: two runs of the pipeline over the same text yield the same tables,
\* rows in the same order, although the vocabulary is sorted by length
\* only and equal-length labels may come in another order in the second run.
SameTablesInBothRuns ==
    BothRunsDone => tables = first.tables /\ sheets = first.sheets

\* the two runs ordered two labels of equal length differently, and both
\* filled a table with records whose services are these labels
RunsWithDifferentVocabularyOrder ==
    /\ BothRunsDone
    /\ vocab # first.vocab
    /\ Len(tables["drop_off"]) = 2
    /\ tables["drop_off"][1].Service # <<>>
    /\ tables["drop_off"][2].Service # tables["drop_off"][1].Service

(***************************************************************************)
(* Properties of the GUI front-end, under SpecGui.                         *)
(***************************************************************************)
\* the workers that were started and have not ended
ActiveWorkers == { w \in Workers : wpc[w] \notin {"unborn", "ended"} }

\* C8: while a conversion is running no second worker can be started, in
\* any interleaving of UI events and worker steps: at most one run_script
\* worker is active at any time.
AtMostOneActiveWorker == Cardinality(ActiveWorkers) <= 1

\* C9: a conversion started from the GUI reports an outcome, whether main
\* completes or calls sys.exit(1): once its worker has ended, sys.stdout
\* and sys.stderr are the streams installed before it started, the
\* progress indicator is stopped and the success message or an error
\* message was logged.  Stated for a conversion that ran alone.
EndedWorkerReported ==
    started = 1 /\ wpc[1] = "ended" =>
        /\ sys_stdout = 0
        /\ sys_stderr = 0
        /\ ~progress
        /\ reported[1] \in {"success", "error"}

====
